---------------------------- MODULE Spec2Model ----------------------------
(***************************************************************************)
(* Model of the employee API's guarded create route:                       *)
(*   POST /employees -> OktaAuthGuard -> AdminGuard -> EmployeesController  *)
(*   .create -> EmployeesService.create -> Repository<Employee>.            *)
(* Strings the code takes apart (the authorization header, exception        *)
(* messages) are sequences of atoms, so that String.replace and template    *)
(* concatenation are computed and not assumed.                              *)
(***************************************************************************)
EXTENDS Integers, Sequences, FiniteSets, TLC

VARIABLES
    config,     \* the ConfigService's environment: a map from set keys to values
    gate,       \* OktaAuthGuard provider: "unbuilt" | "failed" | "ready"
    oktaVerifier, \* options the OktaJwtVerifier was constructed with (<<>> before)
    pc,         \* position of the request in flight
    gi,         \* index in Guards of the next guard to run
    request,    \* the request object: headers, body and, once attached, user
    resp,       \* the response of the request in flight
    calls,      \* calls made on behalf of the request in flight, in order
    empRepo,    \* rows of the Employees table
    nextId,     \* next value of the generated primary key
    local,      \* local variables of the service call in flight (the loaded emp)
    hist,       \* history: what creates and removes have done so far
    deptRepo,   \* rows of the Departments table
    procs       \* the service calls in flight when several run at once

vars == <<config, gate, oktaVerifier, pc, gi, request, resp, calls, empRepo, nextId,
          local, hist, deptRepo, procs>>

-----------------------------------------------------------------------------
(* Bounds *)

\* longest authorization header, in atoms
MaxHeaderLen == 3

-----------------------------------------------------------------------------
(* Strings as sequences of atoms *)

SPACE == " "

\* atoms an authorization header is made of: scheme words, the space and
\* access-token strings
Alphabet == {"Bearer", "bearer", SPACE, "jA", "jU", "jN", "jC"}

RECURSIVE SeqsUpTo(_, _)
SeqsUpTo(S, n) ==
    IF n = 0 THEN {<<>>}
    ELSE LET shorter == SeqsUpTo(S, n - 1)
         IN  shorter \cup {Append(s, a) : s \in {t \in shorter : Len(t) = n - 1}, a \in S}

HeaderValues == SeqsUpTo(Alphabet, MaxHeaderLen)

\* a map with no keys (a header map without authorization, a request without
\* user, claims without groups are records that lack the field)
EmptyMap == <<>>

\* the header maps of inbound requests: authorization absent or any value
HeaderMaps == {EmptyMap} \cup {[authorization |-> h] : h \in HeaderValues}

\* does s hold pat at position i
OccursAt(s, pat, i) ==
    /\ i >= 1
    /\ i + Len(pat) - 1 <= Len(s)
    /\ SubSeq(s, i, i + Len(pat) - 1) = pat

\* String.prototype.replace with a string pattern: the first occurrence only,
\* wherever it is in the string; the string unchanged when there is none
StringReplace(s, pat, rep) ==
    LET hits == {i \in 1..Len(s) : OccursAt(s, pat, i)}
    IN  IF hits = {} THEN s
        ELSE LET i == CHOOSE j \in hits : \A k \in hits : j <= k
             IN  SubSeq(s, 1, i - 1) \o rep \o SubSeq(s, i + Len(pat), Len(s))

-----------------------------------------------------------------------------
(* Configuration (ConfigService) *)

UNDEFINED == "<undefined>"

ConfigKeys == {"OKTA_ISSUER", "OKTA_CLIENT_ID", "OKTA_AUDIENCE"}

DefaultAudience == "api://default"

ConfigValues(key) ==
    CASE key = "OKTA_ISSUER"    -> {"", "https://dev-12345.okta.com/oauth2/default"}
      [] key = "OKTA_CLIENT_ID" -> {"", "test-client-id"}
      [] key = "OKTA_AUDIENCE"  -> {"api://default", "api://custom"}

AllConfigValues == UNION {ConfigValues(k) : k \in ConfigKeys}

\* every environment: each key unset, or set to one of its values
Configs ==
    UNION {{f \in [K -> AllConfigValues] : \A k \in K : f[k] \in ConfigValues(k)}
           : K \in SUBSET ConfigKeys}

\* ConfigService.get(key, defaultValue): the default when the key is not set
ConfigGet(cfg, key, dflt) == IF key \in DOMAIN cfg THEN cfg[key] ELSE dflt

\* !v for a string or undefined
IsFalsy(v) == v = UNDEFINED \/ v = ""

-----------------------------------------------------------------------------
(* Identity Token Verifier (OktaJwtVerifier, the external collaborator) *)

TokenAtoms == {"jA", "jU", "jN", "jC"}

\* the claims of the access tokens the identity provider has issued
IssuedClaims(a) ==
    CASE a = "jA" -> [sub |-> "00u-alice", email |-> "alice@test.com",
                      aud |-> "api://default", groups |-> <<"users", "admin">>]
      [] a = "jU" -> [sub |-> "00u-bob", email |-> "bob@test.com",
                      aud |-> "api://default", groups |-> <<"users", "Admin">>]
      [] a = "jN" -> [sub |-> "00u-carol", email |-> "carol@test.com",
                      aud |-> "api://default"]
      [] a = "jC" -> [sub |-> "00u-dave", email |-> "dave@test.com",
                      aud |-> "api://custom", groups |-> <<"admin">>]

\* the strings that are issued access tokens
IssuedTokens == {<<a>> : a \in TokenAtoms}

\* what can be wrong with an issued token at the time of the check
Faults == {"none", "expired", "signature", "issuer"}

Accept(claims) == [ok |-> TRUE, claims |-> claims]
Reject(message) == [ok |-> FALSE, message |-> message]

\* verifyAccessToken(token, expectedAudience) of a verifier built with
\* assertClaims.aud: the claims, or an error carrying a message
VerifyAccessToken(verifier, token, expectedAudience, fault) ==
    IF token \notin IssuedTokens THEN Reject(<<"Jwt cannot be parsed">>)
    ELSE LET claims == IssuedClaims(token[1])
         IN  IF fault = "expired" THEN Reject(<<"Jwt is expired">>)
             ELSE IF fault = "signature" THEN Reject(<<"Signature verification failed">>)
             ELSE IF fault = "issuer" THEN Reject(<<"issuer not matching">>)
             ELSE IF claims.aud # expectedAudience
                  THEN Reject(<<"audience claim does not match expected audience">>)
             ELSE IF claims.aud # verifier.assertClaims.aud
                  THEN Reject(<<"claim 'aud' value does not match">>)
             ELSE Accept(claims)

-----------------------------------------------------------------------------
(* Responses: the exceptions of @nestjs/common as the exception filter sends them *)

NoResp == [status |-> 0]

UnauthorizedException(message) ==
    [status |-> 401, error |-> "Unauthorized", message |-> message]

ForbiddenException(message) ==
    [status |-> 403, error |-> "Forbidden", message |-> message]

ConflictException ==
    [status |-> 409, error |-> "Conflict", message |-> <<"Conflict">>]

Created(body) == [status |-> 201, body |-> body]

\* an error of the store (QueryFailedError), which the service does not catch
QueryFailedError(message) ==
    [status |-> 500, error |-> "QueryFailedError", message |-> message]

-----------------------------------------------------------------------------
(* Request bodies and Employee rows *)

Emails == {"john@test.com", "jane@test.com"}

CreateEmployeeDtos ==
    [name : {"John Doe"}, email : Emails, salary : {50000},
     dateOfBirth : {"1990-01-15"}, mobileNumber : {1234567890}, departmentId : {1}]

\* the date strings of request bodies
DateStrings == {"1990-01-15", "1991-02-02"}

\* new Date(isoString): a Date object (written as its toISOString), which is
\* not the string it was parsed from
NewDate(s) ==
    CASE s = "1990-01-15" -> "Date(1990-01-15T00:00:00.000Z)"
      [] s = "1991-02-02" -> "Date(1991-02-02T00:00:00.000Z)"
      [] OTHER            -> "Invalid Date"

\* fault variant: the Employee built with name and email exchanged
EmployeeFieldsSwapped(dto) ==
    [name |-> dto.email, dateOfBirth |-> NewDate(dto.dateOfBirth), email |-> dto.name,
     mobileNumber |-> dto.mobileNumber, salary |-> dto.salary,
     departmentId |-> dto.departmentId]

\* the Employee object create builds from the dto (no id yet)
EmployeeOf(dto) ==
    [name |-> dto.name, dateOfBirth |-> NewDate(dto.dateOfBirth), email |-> dto.email,
     mobileNumber |-> dto.mobileNumber, salary |-> dto.salary,
     departmentId |-> dto.departmentId]

\* a row: the Employee with its generated primary key
WithId(emp, id) ==
    [id |-> id, name |-> emp.name, dateOfBirth |-> emp.dateOfBirth, email |-> emp.email,
     mobileNumber |-> emp.mobileNumber, salary |-> emp.salary,
     departmentId |-> emp.departmentId]

\* fault variant: the lookup answers null whatever the table holds
FindNoRow(rows, email) == {}

\* fault variant: the lookup made on the name column
FindByName(rows, email) == {r \in rows : r.name = email}

\* Repository.findOneBy({email}): the rows that match (null when none)
FindByEmail(rows, email) == {r \in rows : r.email = email}

-----------------------------------------------------------------------------
(* The request pipeline *)

\* fault variant: the route guarded by authentication alone
GuardsWithoutAdmin == <<"OktaAuthGuard">>

\* fault variant: the guards listed in the opposite order
GuardsSwapped == <<"AdminGuard", "OktaAuthGuard">>

\* @UseGuards(OktaAuthGuard, AdminGuard) on EmployeesController.create: Nest runs
\* the guards in this order and stops at the first that throws
Guards == <<"OktaAuthGuard", "AdminGuard">>

\* the value null
JsNull == [null |-> TRUE]

\* request.user is truthy: neither undefined nor null
HasUser(req) == "user" \in DOMAIN req /\ req.user # JsNull

WithUser(req, user) == [headers |-> req.headers, body |-> req.body, user |-> user]

\* the exception ends the request
Throw(exception) ==
    /\ resp' = exception
    /\ pc' = "done"
    /\ gi' = 0

\* the guard returned true: on to the next guard, or to the route handler
GuardPassed ==
    /\ resp' = resp
    /\ IF gi < Len(Guards)
       THEN pc' = "guards" /\ gi' = gi + 1
       ELSE pc' = "handler" /\ gi' = 0

-----------------------------------------------------------------------------
(* OktaAuthGuard *)

\* fault variant: && in place of ||
ConfigurationBothMissing(issuer, clientId) == IsFalsy(issuer) /\ IsFalsy(clientId)

\* constructor: if (!issuer || !clientId) throw
ConfigurationMissing(issuer, clientId) == IsFalsy(issuer) \/ IsFalsy(clientId)

\* constructor: the options given to new OktaJwtVerifier
VerifierOptions(cfg) ==
    [issuer |-> ConfigGet(cfg, "OKTA_ISSUER", UNDEFINED),
     clientId |-> ConfigGet(cfg, "OKTA_CLIENT_ID", UNDEFINED),
     assertClaims |-> [aud |-> ConfigGet(cfg, "OKTA_AUDIENCE", DefaultAudience)]]

\* Nest instantiates the provider while NestFactory.create builds the
\* application; the constructor throwing aborts the bootstrap
Construct ==
    /\ gate = "unbuilt"
    /\ IF ConfigurationMissing(ConfigGet(config, "OKTA_ISSUER", UNDEFINED),
                               ConfigGet(config, "OKTA_CLIENT_ID", UNDEFINED))
       THEN gate' = "failed" /\ oktaVerifier' = oktaVerifier
       ELSE gate' = "ready" /\ oktaVerifier' = VerifierOptions(config)
    /\ UNCHANGED <<deptRepo, procs, config, pc, gi, request, resp, calls, empRepo, nextId, local, hist>>

\* request.headers.authorization is undefined or the empty string
NoAuthHeader(headers) ==
    \/ "authorization" \notin DOMAIN headers
    \/ headers.authorization = <<>>

\* fault variant: the wrong exception class for a missing header
MissingHeaderForbidden == ForbiddenException(<<"No authorization header found">>)

MissingHeaderFailure == UnauthorizedException(<<"No authorization header found">>)

\* authHeader.replace('Bearer ', '')
ExtractToken(authHeader) == StringReplace(authHeader, <<"Bearer", SPACE>>, <<>>)

\* the second argument of verifyAccessToken
ExpectedAudience == "api://default"

\* fault variant: the groups of the claims are not copied to the principal
PrincipalWithoutGroups(claims) ==
    [sub |-> claims.sub, email |-> claims.email, groups |-> <<>>]

\* request.user = { sub, email, groups: jwt.claims.groups || [] }
PrincipalOf(claims) ==
    [sub |-> claims.sub, email |-> claims.email,
     groups |-> IF "groups" \in DOMAIN claims THEN claims.groups ELSE <<>>]

\* fault variant: the verifier's message is dropped
VerificationFailureSwallowed(message) ==
    UnauthorizedException(<<"Token verification failed">>)

\* `Token verification failed: ${error.message}`
VerificationFailure(message) ==
    UnauthorizedException(<<"Token verification failed: ">> \o message)

\* fault variant: the principal is attached before the verifier has answered,
\* and left on the request when it rejects
OktaCanActivateAttachFirst ==
    /\ pc = "guards"
    /\ Guards[gi] = "OktaAuthGuard"
    /\ LET entered == Append(calls, [op |-> "OktaAuthGuard.canActivate"])
       IN  IF NoAuthHeader(request.headers)
           THEN /\ Throw(MissingHeaderFailure)
                /\ calls' = entered
                /\ request' = request
           ELSE \E fault \in Faults :
                  LET token  == ExtractToken(request.headers.authorization)
                      result == VerifyAccessToken(oktaVerifier, token,
                                                  ExpectedAudience, fault)
                  IN  /\ calls' = Append(entered,
                                         [op |-> "verifyAccessToken", token |-> token,
                                          expectedAudience |-> ExpectedAudience,
                                          result |-> result])
                      /\ IF result.ok
                         THEN /\ request' = WithUser(request, PrincipalOf(result.claims))
                              /\ GuardPassed
                         ELSE /\ request' = WithUser(request, [sub |-> token, email |-> token,
                                                               groups |-> <<>>])
                              /\ Throw(VerificationFailure(result.message))
    /\ UNCHANGED <<deptRepo, procs, config, gate, oktaVerifier, empRepo, nextId, local, hist>>

\* OktaAuthGuard.canActivate: header, token, verifier, principal
OktaCanActivate ==
    /\ pc = "guards"
    /\ Guards[gi] = "OktaAuthGuard"
    /\ LET entered == Append(calls, [op |-> "OktaAuthGuard.canActivate"])
       IN  IF NoAuthHeader(request.headers)
           THEN /\ Throw(MissingHeaderFailure)
                /\ calls' = entered
                /\ request' = request
           ELSE \E fault \in Faults :
                  LET token  == ExtractToken(request.headers.authorization)
                      result == VerifyAccessToken(oktaVerifier, token,
                                                  ExpectedAudience, fault)
                  IN  /\ calls' = Append(entered,
                                         [op |-> "verifyAccessToken", token |-> token,
                                          expectedAudience |-> ExpectedAudience,
                                          result |-> result])
                      /\ IF result.ok
                         THEN /\ request' = WithUser(request, PrincipalOf(result.claims))
                              /\ GuardPassed
                         ELSE /\ request' = request
                              /\ Throw(VerificationFailure(result.message))
    /\ UNCHANGED <<deptRepo, procs, config, gate, oktaVerifier, empRepo, nextId, local, hist>>

-----------------------------------------------------------------------------
(* AdminGuard *)

\* fault variant: the group name compared without regard to letter case
IsAdminAnyCase(user) ==
    LET groups == IF "groups" \in DOMAIN user THEN user.groups ELSE <<>>
    IN  \E i \in 1..Len(groups) : groups[i] \in {"admin", "Admin"}

\* (user.groups || []).includes('admin')
IsAdmin(user) ==
    LET groups == IF "groups" \in DOMAIN user THEN user.groups ELSE <<>>
    IN  \E i \in 1..Len(groups) : groups[i] = "admin"

\* fault variant: a missing user reported as an authentication failure
MissingUserUnauthorized ==
    UnauthorizedException(
        <<"User information not found. Please ensure authentication guard runs first.">>)

\* if (!user) throw new ForbiddenException(...)
MissingUserFailure ==
    ForbiddenException(
        <<"User information not found. Please ensure authentication guard runs first.">>)

AdminCanActivate ==
    /\ pc = "guards"
    /\ Guards[gi] = "AdminGuard"
    /\ calls' = Append(calls, [op |-> "AdminGuard.canActivate"])
    /\ request' = request
    /\ IF ~HasUser(request)
       THEN Throw(MissingUserFailure)
       ELSE IF ~IsAdmin(request.user)
       THEN Throw(ForbiddenException(<<"Access denied. Admin role required.">>))
       ELSE GuardPassed
    /\ UNCHANGED <<deptRepo, procs, config, gate, oktaVerifier, empRepo, nextId, local, hist>>

-----------------------------------------------------------------------------
(* EmployeesController.create -> EmployeesService.create *)

\* up to the first store answer: findOneBy({email}), then Conflict or go on
CreateLookup ==
    /\ pc = "handler"
    /\ calls' = calls \o <<[op |-> "EmployeesService.create", dto |-> request.body],
                           [op |-> "empRepo.findOneBy", email |-> request.body.email]>>
    /\ IF FindByEmail(empRepo, request.body.email) # {}
       THEN Throw(ConflictException)
       ELSE pc' = "insert" /\ resp' = resp /\ gi' = gi
    /\ UNCHANGED <<deptRepo, procs, config, gate, oktaVerifier, request, empRepo, nextId, local, hist>>

\* the primary key and the unique email column: the row cannot be inserted
InsertViolation(rows, row) == \E r \in rows : r.id = row.id \/ r.email = row.email

\* empRepo.insert(emp); return emp (insert sets the generated id on emp); the
\* key is used up also when the store refuses the row
CreateInsert ==
    /\ pc = "insert"
    /\ LET emp == EmployeeOf(request.body)
       IN  /\ calls' = Append(calls, [op |-> "empRepo.insert", emp |-> emp])
           /\ nextId' = nextId + 1
           /\ IF InsertViolation(empRepo, WithId(emp, nextId))
              THEN /\ resp' = QueryFailedError(<<"unique constraint violated">>)
                   /\ UNCHANGED <<empRepo, hist>>
              ELSE /\ empRepo' = empRepo \cup {WithId(emp, nextId)}
                   /\ hist' = [hist EXCEPT !.created =
                                   @ \cup {[email |-> emp.email, id |-> nextId]}]
                   /\ resp' = Created(WithId(emp, nextId))
    /\ pc' = "done"
    /\ UNCHANGED <<deptRepo, procs, config, gate, oktaVerifier, gi, request, local>>

-----------------------------------------------------------------------------
(* Inbound requests *)

NoRequest == [headers |-> EmptyMap, body |-> EmptyMap]

\* history of the store: created holds, per email, the id of the record a
\* successful create inserted and no update or remove has changed since;
\* removed holds the ids successful removes have deleted
NoHistory == [created |-> {}, removed |-> {}]

\* POST /employees arrives once the application listens (main.ts awaits
\* NestFactory.create before app.listen)
Receive ==
    /\ gate = "ready"
    /\ pc = "idle"
    /\ \E headers \in HeaderMaps, dto \in CreateEmployeeDtos :
           request' = [headers |-> headers, body |-> dto]
    /\ resp' = NoResp
    /\ calls' = <<>>
    /\ pc' = "guards"
    /\ gi' = 1
    /\ UNCHANGED <<deptRepo, procs, config, gate, oktaVerifier, empRepo, nextId, local, hist>>

\* the response is sent and the request object dropped
Respond ==
    /\ pc = "done"
    /\ pc' = "idle"
    /\ request' = NoRequest
    /\ resp' = NoResp
    /\ calls' = <<>>
    /\ UNCHANGED <<deptRepo, procs, config, gate, oktaVerifier, gi, empRepo, nextId, local, hist>>

Init ==
    /\ config \in Configs
    /\ gate = "unbuilt"
    /\ oktaVerifier = EmptyMap
    /\ pc = "idle"
    /\ gi = 0
    /\ request = NoRequest
    /\ resp = NoResp
    /\ calls = <<>>
    /\ empRepo = {}
    /\ nextId = 1
    /\ local = EmptyMap
    /\ hist = NoHistory
    /\ deptRepo = {}
    /\ procs = EmptyMap

Next ==
    \/ Construct
    \/ Receive
    \/ OktaCanActivate
    \/ AdminCanActivate
    \/ CreateLookup
    \/ CreateInsert
    \/ Respond

Spec == Init /\ [][Next]_vars

-----------------------------------------------------------------------------
(* AdminGuard on its own, on any request context (as in admin.guard.spec.ts) *)

\* most groups a user object carries
MaxGroups == 3

GroupNames == {"admin", "Admin", "users", "editors"}

\* the values of request.user: a user object with or without groups, or null
UserValues ==
    {JsNull, [sub |-> "00u-erin", email |-> "erin@test.com"]}
        \cup {[sub |-> "00u-erin", email |-> "erin@test.com", groups |-> g]
               : g \in SeqsUpTo(GroupNames, MaxGroups)}

\* the request contexts: user undefined, or any of the values
AdminRequests == {NoRequest} \cup {WithUser(NoRequest, u) : u \in UserValues}

\* the configuration of the guards' tests
TestConfig ==
    [OKTA_ISSUER |-> "https://dev-12345.okta.com/oauth2/default",
     OKTA_CLIENT_ID |-> "test-client-id", OKTA_AUDIENCE |-> "api://default"]

\* the application is up and nothing is in flight
Running ==
    /\ config = TestConfig
    /\ gate = "ready"
    /\ oktaVerifier = VerifierOptions(TestConfig)
    /\ resp = NoResp
    /\ calls = <<>>
    /\ empRepo = {}
    /\ nextId = 1
    /\ local = EmptyMap
    /\ hist = NoHistory
    /\ deptRepo = {}
    /\ procs = EmptyMap

InitAdmin ==
    /\ Running
    /\ pc = "guards"
    /\ gi = CHOOSE i \in 1..Len(Guards) : Guards[i] = "AdminGuard"
    /\ request \in AdminRequests

NextAdmin == AdminCanActivate

SpecAdmin == InitAdmin /\ [][NextAdmin]_vars

-----------------------------------------------------------------------------
(* Repository<Employee>: the Employees table with the constraints the entity
   declares *)

\* largest primary key the table hands out
MaxId == 3

\* fault variant: the lookup answers a row whatever id is asked for
FindAnyRow(rows, id) == rows

\* Repository.findOneBy({id}): the rows that match (null when none)
FindById(rows, id) == {r \in rows : r.id = id}

\* fault variant: the payload ignored
ObjectAssignNothing(target, source) == target

\* Object.assign(target, source): every own field of source copied onto target
ObjectAssign(target, source) ==
    [k \in DOMAIN target \cup DOMAIN source |->
        IF k \in DOMAIN source THEN source[k] ELSE target[k]]

\* the value a column holds for a value written to it: dateOfBirth is a Date
\* column, a date string written to it is stored as that Date
ColumnValue(k, v) == IF k = "dateOfBirth" /\ v \in DateStrings THEN NewDate(v) ELSE v

Persisted(emp) == [k \in DOMAIN emp |-> ColumnValue(k, emp[k])]

\* fault variant: the email column without its unique constraint
NoUniqueConstraint(rows, id, emp) == FALSE

\* @Column({unique: true}) email and the primary key: the write would give two
\* rows one email or one id
UniqueViolation(rows, id, emp) ==
    \E r \in rows : r.id # id /\ (r.email = emp.email \/ r.id = emp.id)

\* Repository.update({id}, emp): the columns of emp set on the rows that match
UpdateRows(rows, id, emp) ==
    (rows \ FindById(rows, id))
        \cup {Persisted(ObjectAssign(r, emp)) : r \in FindById(rows, id)}

\* fault variant: the delete empties the table
DeleteAllRows(rows, id) == {}

\* Repository.delete(id)
DeleteRows(rows, id) == rows \ FindById(rows, id)

-----------------------------------------------------------------------------
(* EmployeesService called one call at a time (as in employees.service.spec.ts) *)

NotFoundException ==
    [status |-> 404, error |-> "Not Found", message |-> <<"Not Found">>]

\* the call returned a record
Returned(body) == [status |-> 200, body |-> body]

\* the call returned undefined
ReturnedVoid == [status |-> 200]

UpdateFields == {"name", "email", "salary", "dateOfBirth"}

\* payloads that carry every field
FullUpdates ==
    [name : {"Updated Name"}, email : Emails, salary : {65000},
     dateOfBirth : {"1991-02-02"}]

\* UpdateEmployeeDto: any subset of the fields
UpdateEmployeeDtos == {[k \in K |-> full[k]] : K \in SUBSET UpdateFields, full \in FullUpdates}

Ids == 1..MaxId

\* a call of create(dto), findOne(id), update(id, dto) or remove(id) begins
InvokeCreate ==
    /\ pc = "idle"
    /\ nextId <= MaxId
    /\ \E dto \in CreateEmployeeDtos : request' = [headers |-> EmptyMap, body |-> dto]
    /\ pc' = "handler"
    /\ resp' = NoResp
    /\ calls' = <<>>
    /\ UNCHANGED <<deptRepo, procs, config, gate, oktaVerifier, gi, empRepo, nextId, local, hist>>

\* the call as the service receives it: +id from the route and the body
CallWithId(id, dto) == [headers |-> EmptyMap, body |-> dto, params |-> [id |-> id]]

InvokeFindOne ==
    /\ pc = "idle"
    /\ \E id \in Ids : request' = CallWithId(id, EmptyMap)
    /\ pc' = "findOne"
    /\ resp' = NoResp
    /\ calls' = <<[op |-> "EmployeesService.findOne"]>>
    /\ UNCHANGED <<deptRepo, procs, config, gate, oktaVerifier, gi, empRepo, nextId, local, hist>>

InvokeUpdate ==
    /\ pc = "idle"
    /\ \E id \in Ids, dto \in UpdateEmployeeDtos : request' = CallWithId(id, dto)
    /\ pc' = "update"
    /\ resp' = NoResp
    /\ calls' = <<[op |-> "EmployeesService.update"]>>
    /\ UNCHANGED <<deptRepo, procs, config, gate, oktaVerifier, gi, empRepo, nextId, local, hist>>

InvokeRemove ==
    /\ pc = "idle"
    /\ \E id \in Ids : request' = CallWithId(id, EmptyMap)
    /\ pc' = "remove"
    /\ resp' = NoResp
    /\ calls' = <<[op |-> "EmployeesService.remove"]>>
    /\ UNCHANGED <<deptRepo, procs, config, gate, oktaVerifier, gi, empRepo, nextId, local, hist>>

\* the log entry of findOneBy({id}) and what it answered
FindOneByEntry(id) == [op |-> "empRepo.findOneBy", id |-> id, found |-> FindById(empRepo, id)]

\* let emp = await this.empRepo.findOneBy({ id })
Loaded(id) == CHOOSE r \in FindById(empRepo, id) : TRUE

FindOne ==
    /\ pc = "findOne"
    /\ LET id == request.params.id
       IN  /\ calls' = Append(calls, FindOneByEntry(id))
           /\ IF FindById(empRepo, id) # {}
              THEN resp' = Returned(Loaded(id)) /\ pc' = "done" /\ gi' = gi
              ELSE Throw(NotFoundException)
    /\ UNCHANGED <<deptRepo, procs, config, gate, oktaVerifier, request, empRepo, nextId, local, hist>>

\* update up to the answer of findOneBy
UpdateLoad ==
    /\ pc = "update"
    /\ LET id == request.params.id
       IN  /\ calls' = Append(calls, FindOneByEntry(id))
           /\ IF FindById(empRepo, id) = {}
              THEN Throw(NotFoundException) /\ local' = local
              ELSE /\ local' = [emp |-> Loaded(id)]
                   /\ pc' = "updateWrite" /\ resp' = resp /\ gi' = gi
    /\ UNCHANGED <<deptRepo, procs, config, gate, oktaVerifier, request, empRepo, nextId, hist>>

\* history: the record with this id is no longer the one create inserted
Forget(id) == [hist EXCEPT !.created = {c \in @ : c.id # id}]

\* Object.assign(emp, dto); await this.empRepo.update({ id: id }, emp); return emp
UpdateWrite ==
    /\ pc = "updateWrite"
    /\ LET id  == request.params.id
           emp == ObjectAssign(local.emp, request.body)
       IN  /\ calls' = Append(calls, [op |-> "empRepo.update", criteria |-> [id |-> id],
                                      emp |-> emp])
           /\ IF UniqueViolation(empRepo, id, emp)
              THEN /\ Throw(QueryFailedError(<<"unique constraint violated">>))
                   /\ UNCHANGED <<empRepo, hist>>
              ELSE /\ empRepo' = UpdateRows(empRepo, id, emp)
                   /\ hist' = IF empRepo' = empRepo THEN hist ELSE Forget(id)
                   /\ resp' = Returned(emp)
                   /\ pc' = "done"
                   /\ gi' = gi
    /\ local' = EmptyMap
    /\ UNCHANGED <<deptRepo, procs, config, gate, oktaVerifier, request, nextId>>

\* remove up to the answer of findOneBy
RemoveLoad ==
    /\ pc = "remove"
    /\ LET id == request.params.id
       IN  /\ calls' = Append(calls, FindOneByEntry(id))
           /\ IF FindById(empRepo, id) = {}
              THEN Throw(NotFoundException)
              ELSE pc' = "removeDelete" /\ resp' = resp /\ gi' = gi
    /\ UNCHANGED <<deptRepo, procs, config, gate, oktaVerifier, request, empRepo, nextId, local, hist>>

\* await this.empRepo.delete(id)
RemoveDelete ==
    /\ pc = "removeDelete"
    /\ LET id == request.params.id
       IN  /\ calls' = Append(calls, [op |-> "empRepo.delete", id |-> id])
           /\ empRepo' = DeleteRows(empRepo, id)
           /\ hist' = [created |-> {c \in hist.created : c.id # id},
                       removed |-> hist.removed \cup {id}]
    /\ resp' = ReturnedVoid
    /\ pc' = "done"
    /\ UNCHANGED <<deptRepo, procs, config, gate, oktaVerifier, gi, request, nextId, local>>

InitEmp ==
    /\ Running
    /\ pc = "idle"
    /\ gi = 0
    /\ request = NoRequest

NextEmp ==
    \/ InvokeCreate
    \/ CreateLookup
    \/ CreateInsert
    \/ InvokeFindOne
    \/ FindOne
    \/ InvokeUpdate
    \/ UpdateLoad
    \/ UpdateWrite
    \/ InvokeRemove
    \/ RemoveLoad
    \/ RemoveDelete
    \/ Respond

SpecEmp == InitEmp /\ [][NextEmp]_vars

-----------------------------------------------------------------------------
(* EmployeesService.update with payloads as they arrive at run time, where the
   type UpdateEmployeeDto no longer constrains them *)

\* payloads that carry an id of their own
PayloadsWithId ==
    {[id |-> i] : i \in Ids} \cup {[id |-> i, name |-> "Updated Name"] : i \in Ids}

AnyUpdatePayloads == PayloadsWithId \cup {[name |-> "Updated Name"], [email |-> "jane@test.com"]}

InvokeUpdateAny ==
    /\ pc = "idle"
    /\ \E id \in Ids, dto \in AnyUpdatePayloads : request' = CallWithId(id, dto)
    /\ pc' = "update"
    /\ resp' = NoResp
    /\ calls' = <<[op |-> "EmployeesService.update"]>>
    /\ UNCHANGED <<deptRepo, procs, config, gate, oktaVerifier, gi, empRepo, nextId, local, hist>>

NextEmpAny ==
    \/ InvokeCreate
    \/ CreateLookup
    \/ CreateInsert
    \/ InvokeFindOne
    \/ FindOne
    \/ InvokeUpdateAny
    \/ UpdateLoad
    \/ UpdateWrite
    \/ InvokeRemove
    \/ RemoveLoad
    \/ RemoveDelete
    \/ Respond

SpecEmpAny == InitEmp /\ [][NextEmpAny]_vars

-----------------------------------------------------------------------------
(* EmployeesService with two calls in flight: Node runs the code between two
   awaits without interruption, each store call is one statement of the
   database, and the calls interleave at the awaits *)

Procs == {"p", "q"}

\* largest primary key a concurrent call asks for, and most creates started
MaxRaceId == 2

RaceIds == 1..MaxRaceId

\* no call in flight
NoCall ==
    [pc |-> "idle", request |-> NoRequest, resp |-> NoResp, calls |-> <<>>,
     local |-> EmptyMap]

\* update payloads of the concurrent calls: two that touch different fields
ConcurrentUpdates == {[name |-> "Updated Name"], [salary |-> 65000]}

\* rows a statement with criteria {id} touches (UpdateResult/DeleteResult.affected)
Affected(rows, id) == Cardinality(FindById(rows, id))

InvokeCreateBy(p) ==
    /\ procs[p].pc = "idle"
    /\ nextId <= MaxRaceId
    /\ \E dto \in CreateEmployeeDtos :
          procs' = [procs EXCEPT ![p] =
                       [NoCall EXCEPT !.pc = "handler",
                                      !.request = [headers |-> EmptyMap, body |-> dto]]]
    /\ UNCHANGED <<deptRepo, config, gate, oktaVerifier, pc, gi, request, resp, calls, empRepo,
                   nextId, local, hist>>

CreateLookupBy(p) ==
    /\ procs[p].pc = "handler"
    /\ LET me    == procs[p]
           found == FindByEmail(empRepo, me.request.body.email)
           log   == me.calls \o <<[op |-> "EmployeesService.create"],
                                  [op |-> "empRepo.findOneBy",
                                   email |-> me.request.body.email, found |-> found]>>
       IN  procs' = [procs EXCEPT ![p] =
                        IF found # {}
                        THEN [me EXCEPT !.calls = log, !.pc = "done",
                                        !.resp = ConflictException]
                        ELSE [me EXCEPT !.calls = log, !.pc = "insert"]]
    /\ UNCHANGED <<deptRepo, config, gate, oktaVerifier, pc, gi, request, resp, calls, empRepo,
                   nextId, local, hist>>

\* fault variant: the email is looked up again in the same step as the insert
CreateInsertRecheckedBy(p) ==
    /\ procs[p].pc = "insert"
    /\ LET me  == procs[p]
           emp == EmployeeOf(me.request.body)
           row == WithId(emp, nextId)
       IN  IF FindByEmail(empRepo, emp.email) # {}
           THEN /\ procs' = [procs EXCEPT ![p] =
                                [me EXCEPT !.pc = "done", !.resp = ConflictException]]
                /\ UNCHANGED <<empRepo, nextId>>
           ELSE /\ nextId' = nextId + 1
                /\ empRepo' = empRepo \cup {row}
                /\ procs' = [procs EXCEPT ![p] =
                                [me EXCEPT !.calls = Append(@, [op |-> "empRepo.insert",
                                                                emp |-> emp]),
                                           !.pc = "done", !.resp = Created(row)]]
    /\ UNCHANGED <<deptRepo, config, gate, oktaVerifier, pc, gi, request, resp, calls, local, hist>>

CreateInsertBy(p) ==
    /\ procs[p].pc = "insert"
    /\ LET me  == procs[p]
           emp == EmployeeOf(me.request.body)
           row == WithId(emp, nextId)
           log == Append(me.calls, [op |-> "empRepo.insert", emp |-> emp])
       IN  /\ nextId' = nextId + 1
           /\ IF InsertViolation(empRepo, row)
              THEN /\ empRepo' = empRepo
                   /\ procs' = [procs EXCEPT ![p] =
                                   [me EXCEPT !.calls = log, !.pc = "done",
                                      !.resp = QueryFailedError(<<"unique constraint violated">>)]]
              ELSE /\ empRepo' = empRepo \cup {row}
                   /\ procs' = [procs EXCEPT ![p] =
                                   [me EXCEPT !.calls = log, !.pc = "done",
                                              !.resp = Created(row)]]
    /\ UNCHANGED <<deptRepo, config, gate, oktaVerifier, pc, gi, request, resp, calls, local, hist>>

InvokeUpdateBy(p) ==
    /\ procs[p].pc = "idle"
    /\ \E id \in RaceIds, dto \in ConcurrentUpdates :
          procs' = [procs EXCEPT ![p] =
                       [NoCall EXCEPT !.pc = "update", !.request = CallWithId(id, dto),
                                      !.calls = <<[op |-> "EmployeesService.update"]>>]]
    /\ UNCHANGED <<deptRepo, config, gate, oktaVerifier, pc, gi, request, resp, calls, empRepo,
                   nextId, local, hist>>

InvokeRemoveBy(p) ==
    /\ procs[p].pc = "idle"
    /\ \E id \in RaceIds :
          procs' = [procs EXCEPT ![p] =
                       [NoCall EXCEPT !.pc = "remove", !.request = CallWithId(id, EmptyMap),
                                      !.calls = <<[op |-> "EmployeesService.remove"]>>]]
    /\ UNCHANGED <<deptRepo, config, gate, oktaVerifier, pc, gi, request, resp, calls, empRepo,
                   nextId, local, hist>>

\* update and remove up to the answer of findOneBy({id})
LoadBy(p) ==
    /\ procs[p].pc \in {"update", "remove"}
    /\ LET me    == procs[p]
           id    == me.request.params.id
           found == FindById(empRepo, id)
           log   == Append(me.calls, [op |-> "empRepo.findOneBy", id |-> id,
                                      found |-> found])
       IN  procs' = [procs EXCEPT ![p] =
                        IF found = {}
                        THEN [me EXCEPT !.calls = log, !.pc = "done",
                                        !.resp = NotFoundException]
                        ELSE IF me.pc = "update"
                        THEN [me EXCEPT !.calls = log, !.pc = "updateWrite",
                                        !.local = [emp |-> CHOOSE r \in found : TRUE]]
                        ELSE [me EXCEPT !.calls = log, !.pc = "removeDelete"]]
    /\ UNCHANGED <<deptRepo, config, gate, oktaVerifier, pc, gi, request, resp, calls, empRepo,
                   nextId, local, hist>>

\* Object.assign(emp, dto); await this.empRepo.update({ id: id }, emp); return emp
UpdateWriteBy(p) ==
    /\ procs[p].pc = "updateWrite"
    /\ LET me  == procs[p]
           id  == me.request.params.id
           emp == ObjectAssign(me.local.emp, me.request.body)
           log == Append(me.calls, [op |-> "empRepo.update", criteria |-> [id |-> id],
                                    emp |-> emp, affected |-> Affected(empRepo, id)])
       IN  IF Affected(empRepo, id) > 0 /\ UniqueViolation(empRepo, id, emp)
           THEN /\ empRepo' = empRepo
                /\ procs' = [procs EXCEPT ![p] =
                                [me EXCEPT !.calls = log, !.pc = "done", !.local = EmptyMap,
                                   !.resp = QueryFailedError(<<"unique constraint violated">>)]]
           ELSE /\ empRepo' = UpdateRows(empRepo, id, emp)
                /\ procs' = [procs EXCEPT ![p] =
                                [me EXCEPT !.calls = log, !.pc = "done", !.local = EmptyMap,
                                           !.resp = Returned(emp)]]
    /\ UNCHANGED <<deptRepo, config, gate, oktaVerifier, pc, gi, request, resp, calls, nextId,
                   local, hist>>

\* await this.empRepo.delete(id)
RemoveDeleteBy(p) ==
    /\ procs[p].pc = "removeDelete"
    /\ LET me  == procs[p]
           id  == me.request.params.id
           log == Append(me.calls, [op |-> "empRepo.delete", id |-> id,
                                    affected |-> Affected(empRepo, id)])
       IN  /\ empRepo' = DeleteRows(empRepo, id)
           /\ procs' = [procs EXCEPT ![p] =
                           [me EXCEPT !.calls = log, !.pc = "done", !.resp = ReturnedVoid]]
    /\ UNCHANGED <<deptRepo, config, gate, oktaVerifier, pc, gi, request, resp, calls, nextId,
                   local, hist>>

\* the call's promise has settled and its caller has the outcome
RespondBy(p) ==
    /\ procs[p].pc = "done"
    /\ procs' = [procs EXCEPT ![p] = NoCall]
    /\ UNCHANGED <<deptRepo, config, gate, oktaVerifier, pc, gi, request, resp, calls, empRepo,
                   nextId, local, hist>>

InitConcurrent ==
    /\ config = TestConfig
    /\ gate = "ready"
    /\ oktaVerifier = VerifierOptions(TestConfig)
    /\ pc = "idle"
    /\ gi = 0
    /\ request = NoRequest
    /\ resp = NoResp
    /\ calls = <<>>
    /\ empRepo = {}
    /\ nextId = 1
    /\ local = EmptyMap
    /\ hist = NoHistory
    /\ deptRepo = {}
    /\ procs = [p \in Procs |-> NoCall]

NextConcurrent ==
    \/ \E p \in Procs : InvokeCreateBy(p)
    \/ \E p \in Procs : CreateLookupBy(p)
    \/ \E p \in Procs : CreateInsertBy(p)
    \/ \E p \in Procs : InvokeUpdateBy(p)
    \/ \E p \in Procs : InvokeRemoveBy(p)
    \/ \E p \in Procs : LoadBy(p)
    \/ \E p \in Procs : UpdateWriteBy(p)
    \/ \E p \in Procs : RemoveDeleteBy(p)
    \/ \E p \in Procs : RespondBy(p)

SpecConcurrent == InitConcurrent /\ [][NextConcurrent]_vars

-----------------------------------------------------------------------------
(* EmployeesService over a store whose calls can fail *)

\* errors the store rejects a call with
StoreErrors == {<<"ORA-03113: end-of-file on communication channel">>,
                <<"ORA-12170: TNS: connect timeout occurred">>}

\* the store call each position of the service awaits
AwaitedCall ==
    [handler |-> "empRepo.findOneBy", insert |-> "empRepo.insert",
     findOne |-> "empRepo.findOneBy", update |-> "empRepo.findOneBy",
     updateWrite |-> "empRepo.update", remove |-> "empRepo.findOneBy",
     removeDelete |-> "empRepo.delete"]

\* fault variant: the rejection caught and reported as NotFound
RejectionAsNotFound(error) == NotFoundException

\* an awaited store call rejects and the method has no try/catch: the call
\* fails with the error the store gave
Rejection(error) == error

\* the store call the service is waiting for rejects
StoreFails ==
    /\ pc \in DOMAIN AwaitedCall
    /\ \E message \in StoreErrors :
          /\ calls' = Append(calls, [op |-> AwaitedCall[pc],
                                     error |-> QueryFailedError(message)])
          /\ Throw(Rejection(QueryFailedError(message)))
    /\ local' = EmptyMap
    /\ UNCHANGED <<deptRepo, procs, config, gate, oktaVerifier, request, empRepo, nextId, hist>>

NextEmpFaulty ==
    \/ NextEmp
    \/ StoreFails

SpecEmpFaulty == InitEmp /\ [][NextEmpFaulty]_vars

-----------------------------------------------------------------------------
(* calculateAnnualSalary *)

\* largest monthly salary tried, in either direction from zero
MaxSalary == 60

\* the arguments: every integer around zero and the two of the unit tests
MonthlySalaries == (-MaxSalary..MaxSalary) \cup {50000, -100}

\* throw new Error(message)
ThrownError(message) == [status |-> 500, error |-> "Error", message |-> message]

\* fault variant: zero refused as well
CalculateRefusingZero(monthlySalary) ==
    IF monthlySalary <= 0
    THEN ThrownError("Invalid salary")
    ELSE Returned(monthlySalary * 12)

calculateAnnualSalary(monthlySalary) ==
    IF monthlySalary < 0
    THEN ThrownError("Invalid salary")
    ELSE Returned(monthlySalary * 12)

InitSalary ==
    /\ Running
    /\ pc = "salary"
    /\ gi = 0
    /\ request \in {[headers |-> EmptyMap, body |-> m] : m \in MonthlySalaries}

CallCalculateAnnualSalary ==
    /\ pc = "salary"
    /\ calls' = Append(calls, [op |-> "calculateAnnualSalary", monthlySalary |-> request.body])
    /\ resp' = calculateAnnualSalary(request.body)
    /\ pc' = "done"
    /\ UNCHANGED <<deptRepo, procs, config, gate, oktaVerifier, gi, request, empRepo, nextId, local,
                   hist>>

NextSalary == CallCalculateAnnualSalary

SpecSalary == InitSalary /\ [][NextSalary]_vars

-----------------------------------------------------------------------------
(* DepartmentsService called one call at a time *)

\* most rows the Departments table is let grow to
MaxDepartments == 3

DepartmentNames == {"Engineering", "engineering", "Sales"}

CreateDepartmentDtos == [name : DepartmentNames]

UpdateDepartmentDtos == {EmptyMap} \cup [name : DepartmentNames]

DepartmentIds == 1..MaxDepartments

\* folds a name to lower case
LowerName(name) == IF name = "Engineering" THEN "engineering" ELSE name

\* fault variant: the lookup compares names without regard to case
FindDepartmentAnyCase(rows, name) == {r \in rows : LowerName(r.name) = LowerName(name)}

\* deptRepo.findOneBy({name: dto.name}): the rows that match (null when none)
FindDepartmentByName(rows, name) == {r \in rows : r.name = name}

\* deptRepo.findOneBy({id}): the rows that match (null when none)
FindDepartmentById(rows, id) == {r \in rows : r.id = id}

\* the key insert generates: the table only grows, no Department is ever deleted
NextDepartmentId == Cardinality(deptRepo) + 1

\* `This action ${verb} a #${id} department`
ActionMessage(verb, id) == <<"This action ", verb, " a #", id, " department">>

InvokeDepartmentCreate ==
    /\ pc = "idle"
    /\ Cardinality(deptRepo) < MaxDepartments
    /\ \E dto \in CreateDepartmentDtos : request' = [headers |-> EmptyMap, body |-> dto]
    /\ pc' = "deptCreate"
    /\ resp' = NoResp
    /\ calls' = <<[op |-> "DepartmentsService.create"]>>
    /\ UNCHANGED <<deptRepo, procs, config, gate, oktaVerifier, gi, empRepo, nextId, local, hist>>

\* create up to the answer of findOneBy({name}): Conflict or go on
DepartmentCreateLookup ==
    /\ pc = "deptCreate"
    /\ LET name == request.body.name
       IN  /\ calls' = Append(calls, [op |-> "deptRepo.findOneBy", name |-> name,
                                      found |-> FindDepartmentByName(deptRepo, name)])
           /\ IF FindDepartmentByName(deptRepo, name) # {}
              THEN Throw(ConflictException)
              ELSE pc' = "deptInsert" /\ resp' = resp /\ gi' = gi
    /\ UNCHANGED <<deptRepo, procs, config, gate, oktaVerifier, request, empRepo, nextId, local, hist>>

\* deptRepo.insert(newDept); return newDept (insert sets the generated id on it)
DepartmentCreateInsert ==
    /\ pc = "deptInsert"
    /\ LET newDept == [name |-> request.body.name]
           row     == [id |-> NextDepartmentId, name |-> newDept.name]
       IN  /\ calls' = Append(calls, [op |-> "deptRepo.insert", dept |-> newDept])
           /\ deptRepo' = deptRepo \cup {row}
           /\ resp' = Created(row)
    /\ pc' = "done"
    /\ UNCHANGED <<procs, config, gate, oktaVerifier, gi, request, empRepo, nextId, local, hist>>

InvokeDepartmentFindOne ==
    /\ pc = "idle"
    /\ \E id \in DepartmentIds : request' = CallWithId(id, EmptyMap)
    /\ pc' = "deptFindOne"
    /\ resp' = NoResp
    /\ calls' = <<[op |-> "DepartmentsService.findOne"]>>
    /\ UNCHANGED <<deptRepo, procs, config, gate, oktaVerifier, gi, empRepo, nextId, local, hist>>

\* return await this.deptRepo.findOneBy({id}): the row, or null
DepartmentFindOne ==
    /\ pc = "deptFindOne"
    /\ LET found == FindDepartmentById(deptRepo, request.params.id)
       IN  /\ calls' = Append(calls, [op |-> "deptRepo.findOneBy", id |-> request.params.id,
                                      found |-> found])
           /\ resp' = Returned(IF found # {} THEN CHOOSE r \in found : TRUE ELSE JsNull)
    /\ pc' = "done"
    /\ UNCHANGED <<deptRepo, procs, config, gate, oktaVerifier, gi, request, empRepo, nextId, local, hist>>

InvokeDepartmentUpdate ==
    /\ pc = "idle"
    /\ \E id \in DepartmentIds, dto \in UpdateDepartmentDtos : request' = CallWithId(id, dto)
    /\ pc' = "deptUpdate"
    /\ resp' = NoResp
    /\ calls' = <<[op |-> "DepartmentsService.update"]>>
    /\ UNCHANGED <<deptRepo, procs, config, gate, oktaVerifier, gi, empRepo, nextId, local, hist>>

\* fault variant: update written like the Employee one, looking the id up first
DepartmentUpdateChecked ==
    /\ pc = "deptUpdate"
    /\ LET found == FindDepartmentById(deptRepo, request.params.id)
       IN  /\ calls' = Append(calls, [op |-> "deptRepo.findOneBy", id |-> request.params.id,
                                      found |-> found])
           /\ IF found = {}
              THEN Throw(NotFoundException)
              ELSE /\ resp' = Returned(ActionMessage("updates", request.params.id))
                   /\ pc' = "done" /\ gi' = gi
    /\ UNCHANGED <<deptRepo, procs, config, gate, oktaVerifier, request, empRepo, nextId, local, hist>>

\* return `This action updates a #${id} department`
DepartmentUpdate ==
    /\ pc = "deptUpdate"
    /\ resp' = Returned(ActionMessage("updates", request.params.id))
    /\ pc' = "done"
    /\ UNCHANGED <<deptRepo, procs, config, gate, oktaVerifier, gi, request, calls, empRepo, nextId,
                   local, hist>>

InvokeDepartmentRemove ==
    /\ pc = "idle"
    /\ \E id \in DepartmentIds : request' = CallWithId(id, EmptyMap)
    /\ pc' = "deptRemove"
    /\ resp' = NoResp
    /\ calls' = <<[op |-> "DepartmentsService.remove"]>>
    /\ UNCHANGED <<deptRepo, procs, config, gate, oktaVerifier, gi, empRepo, nextId, local, hist>>

\* return `This action removes a #${id} department`
DepartmentRemove ==
    /\ pc = "deptRemove"
    /\ resp' = Returned(ActionMessage("removes", request.params.id))
    /\ pc' = "done"
    /\ UNCHANGED <<deptRepo, procs, config, gate, oktaVerifier, gi, request, calls, empRepo, nextId,
                   local, hist>>

NextDept ==
    \/ InvokeDepartmentCreate
    \/ DepartmentCreateLookup
    \/ DepartmentCreateInsert
    \/ InvokeDepartmentFindOne
    \/ DepartmentFindOne
    \/ InvokeDepartmentUpdate
    \/ DepartmentUpdate
    \/ InvokeDepartmentRemove
    \/ DepartmentRemove
    \/ Respond

SpecDept == InitEmp /\ [][NextDept]_vars

-----------------------------------------------------------------------------
(* Vocabulary of the properties *)

\* the calls with this name made for the request in flight, as positions in calls
CallsTo(op) == {i \in 1..Len(calls) : calls[i].op = op}

\* OktaAuthGuard.canActivate has run for the request in flight
AuthnRan == CallsTo("OktaAuthGuard.canActivate") # {}

HeaderPresent == "authorization" \in DOMAIN request.headers

Lower(a) == IF a = "Bearer" THEN "bearer" ELSE a

\* the pattern of the specification: the scheme Bearer in any letter case, one
\* space, then a token of at least one character and no white space
MatchesBearerPattern(h) ==
    /\ Len(h) >= 3
    /\ Lower(h[1]) = "bearer"
    /\ h[2] = SPACE
    /\ \A i \in 3..Len(h) : h[i] # SPACE

\* the token of a header that matches the pattern
PatternToken(h) == SubSeq(h, 3, Len(h))

\* the service or the store was reached for the request in flight
StoreTouched ==
    \/ CallsTo("EmployeesService.create") # {}
    \/ CallsTo("empRepo.findOneBy") # {}
    \/ CallsTo("empRepo.insert") # {}
    \/ pc \in {"handler", "insert"}

-----------------------------------------------------------------------------
(* Properties *)

\* C1: a request to the guarded create route whose token was verified and whose
\* principal's groups do not hold "admin" never reaches EmployeesService.create
\* or the store, and when it has ended its response is 403 Forbidden.
C1_NonAdminForbidden ==
    (HasUser(request) /\ ~(\E i \in 1..Len(request.user.groups) :
                               request.user.groups[i] = "admin"))
        => /\ ~StoreTouched
           /\ pc = "done" => (resp.status = 403 /\ resp.error = "Forbidden")
           /\ resp.status \in {0, 403}

C1_Witness ==
    /\ pc = "done"
    /\ HasUser(request)
    /\ request.user.groups = <<"users", "Admin">>
    /\ resp.status = 403
    /\ CallsTo("AdminGuard.canActivate") # {}

\* C2: AdminGuard runs for a request only after OktaAuthGuard has verified that
\* request's token; a request whose authentication failed has ended with 401
\* Unauthorized, and neither AdminGuard nor the service or the store was reached.
C2_AuthnBeforeAuthz ==
    /\ \A i \in CallsTo("AdminGuard.canActivate") :
           /\ \E j \in CallsTo("OktaAuthGuard.canActivate") : j < i
           /\ \E j \in CallsTo("verifyAccessToken") : j < i /\ calls[j].result.ok
           /\ HasUser(request)
    /\ (AuthnRan /\ ~HasUser(request))
           => /\ pc = "done"
              /\ resp.status = 401
              /\ CallsTo("AdminGuard.canActivate") = {}
              /\ ~StoreTouched

C2_Witness ==
    /\ pc = "done"
    /\ resp.status = 401
    /\ HeaderPresent
    /\ \E j \in CallsTo("verifyAccessToken") : ~calls[j].result.ok

\* C3: when the request has no authorization header, OktaAuthGuard.canActivate
\* fails with 401 Unauthorized without a call of the verifier and without a user
\* on the request.
C3_MissingHeaderUnauthorized ==
    (AuthnRan /\ ~HeaderPresent)
        => /\ pc = "done"
           /\ resp.status = 401
           /\ resp.error = "Unauthorized"
           /\ CallsTo("verifyAccessToken") = {}
           /\ ~HasUser(request)

C3_Witness ==
    /\ AuthnRan
    /\ ~HeaderPresent
    /\ resp = UnauthorizedException(<<"No authorization header found">>)

\* C4: for every authorization header value that does not match the pattern
\* Bearer <nonempty-token> (scheme in any letter case), OktaAuthGuard.canActivate
\* fails with 401 Unauthorized.
C4_MalformedHeaderUnauthorized ==
    (AuthnRan /\ HeaderPresent /\ ~MatchesBearerPattern(request.headers.authorization))
        => /\ pc = "done"
           /\ resp.status = 401
           /\ ~HasUser(request)

\* C5: the verifier is called only for a header that matches the pattern
\* Bearer <nonempty-token>; for a malformed header it is never called.
C5_VerifierOnlyForWellFormed ==
    (AuthnRan /\ HeaderPresent /\ ~MatchesBearerPattern(request.headers.authorization))
        => CallsTo("verifyAccessToken") = {}

\* C6: for every header <scheme> <token> whose scheme is "bearer" in any letter
\* case and whose token is not empty, the string handed to the verifier is
\* exactly <token>.
C6_TokenWithoutScheme ==
    (AuthnRan /\ HeaderPresent /\ MatchesBearerPattern(request.headers.authorization))
        => /\ CallsTo("verifyAccessToken") # {}
           /\ \A i \in CallsTo("verifyAccessToken") :
                  calls[i].token = PatternToken(request.headers.authorization)

\* is part a run of consecutive elements of whole
Contains(whole, part) == \E i \in 1..(Len(whole) + 1) : OccursAt(whole, part, i)

C8_VerifierErrorWrapped ==
    \A i \in CallsTo("verifyAccessToken") :
        ~calls[i].result.ok
            => /\ pc = "done"
               /\ resp.status = 401
               /\ resp.error = "Unauthorized"
               /\ Contains(resp.message, calls[i].result.message)
               /\ ~HasUser(request)

C8_Witness ==
    /\ pc = "done"
    /\ \E i \in CallsTo("verifyAccessToken") :
           /\ calls[i].token = <<"jA">>
           /\ calls[i].result = Reject(<<"Jwt is expired">>)
    /\ resp.message = <<"Token verification failed: ", "Jwt is expired">>

\* C9: on every verification the expected audience handed to the verifier is
\* the configured audience: OKTA_AUDIENCE, or "api://default" when it is not set.
C9_ExpectedAudienceIsConfigured ==
    \A i \in CallsTo("verifyAccessToken") :
        calls[i].expectedAudience =
            IF "OKTA_AUDIENCE" \in DOMAIN config THEN config["OKTA_AUDIENCE"]
                                                 ELSE "api://default"

\* the issuer or the client id is not set, or is the empty string
IssuerOrClientIdAbsent ==
    \/ "OKTA_ISSUER" \notin DOMAIN config
    \/ "OKTA_CLIENT_ID" \notin DOMAIN config
    \/ config["OKTA_ISSUER"] = ""
    \/ config["OKTA_CLIENT_ID"] = ""

\* C10: the construction of OktaAuthGuard fails exactly when the configured
\* issuer or client id is absent or empty, whatever the audience; after a failed
\* construction there is no verifier and no request is ever handled.
C10_ConstructionFailsFast ==
    /\ gate # "unbuilt" => (gate = "failed" <=> IssuerOrClientIdAbsent)
    /\ gate # "ready"
           => /\ oktaVerifier = EmptyMap
              /\ pc = "idle"
              /\ request = NoRequest
              /\ resp = NoResp
              /\ calls = <<>>

C10_Witness ==
    /\ gate = "failed"
    /\ "OKTA_ISSUER" \in DOMAIN config
    /\ config["OKTA_ISSUER"] # ""
    /\ "OKTA_CLIENT_ID" \in DOMAIN config
    /\ config["OKTA_CLIENT_ID"] = ""

\* AdminGuard.canActivate has run for the request in flight
AuthzRan == CallsTo("AdminGuard.canActivate") # {}

\* C11: AdminGuard.canActivate on a request without a principal (request.user
\* undefined or null) fails with 403 Forbidden, never with 401 Unauthorized.
C11_NoPrincipalForbidden ==
    (AuthzRan /\ ("user" \notin DOMAIN request \/ request.user = JsNull))
        => /\ pc = "done"
           /\ resp.status = 403
           /\ resp.error = "Forbidden"
           /\ resp.status # 401

C11_Witness ==
    /\ AuthzRan
    /\ "user" \in DOMAIN request
    /\ request.user = JsNull
    /\ resp.status = 403

\* C12: for a request with a principal, AdminGuard.canActivate returns true
\* exactly when the principal's groups hold the string "admin" (this spelling, at
\* any position); with groups missing, empty or holding only other strings
\* ("Admin" among them) it fails with 403 Forbidden.
C12_AdminIffExactGroup ==
    (AuthzRan /\ "user" \in DOMAIN request /\ request.user # JsNull)
        => LET groups == IF "groups" \in DOMAIN request.user THEN request.user.groups
                                                             ELSE <<>>
               member == \E i \in 1..Len(groups) : groups[i] = "admin"
           IN  /\ member => (pc = "handler" /\ resp = NoResp)
               /\ ~member => (pc = "done" /\ resp.status = 403 /\ resp.error = "Forbidden")

C12_Witness ==
    /\ AuthzRan
    /\ "user" \in DOMAIN request
    /\ request.user # JsNull
    /\ "groups" \in DOMAIN request.user
    /\ request.user.groups = <<"users", "admin", "editors">>
    /\ pc = "handler"

-----------------------------------------------------------------------------
(* EmployeesService, one call at a time *)

\* the store holds a record with the email of the create in flight
EmailTaken == \E r \in empRepo : r.email = request.body.email

\* the fields of CreateEmployeeDto the entity stores as they are
PlainFields == {"name", "email", "salary", "mobileNumber", "departmentId"}

\* C13: create with an email some stored Employee already has fails with
\* Conflict, never calls insert, and leaves the store as it was.
C13_DuplicateEmailConflicts ==
    [][(pc = "handler" /\ EmailTaken)
          => /\ pc' = "done"
             /\ resp' = ConflictException
             /\ \A i \in 1..Len(calls') : calls'[i].op # "empRepo.insert"
             /\ empRepo' = empRepo]_vars

C13_Witness ==
    /\ pc = "done"
    /\ CallsTo("EmployeesService.create") # {}
    /\ resp.status = 409
    /\ EmailTaken

\* C14: create with an email no stored Employee has calls insert exactly once,
\* with the record built from the input, and returns a record whose name, email,
\* salary, mobileNumber and departmentId are the input's.
C14_FreshEmailInserted ==
    [][/\ (pc = "handler" /\ ~EmailTaken)
           => (pc' = "insert" /\ \A i \in 1..Len(calls') : calls'[i].op # "empRepo.insert")
       /\ (pc = "insert")
           => /\ pc' = "done"
              /\ \E i \in 1..Len(calls') :
                    /\ \A j \in 1..Len(calls') : calls'[j].op = "empRepo.insert" <=> j = i
                    /\ DOMAIN calls'[i].emp = DOMAIN request.body
                    /\ \A f \in PlainFields : calls'[i].emp[f] = request.body[f]
                    /\ calls'[i].emp.dateOfBirth = NewDate(request.body.dateOfBirth)
              /\ resp'.status = 201
              /\ \A f \in PlainFields : resp'.body[f] = request.body[f]]_vars

C14_Witness ==
    /\ pc = "done"
    /\ resp.status = 201
    /\ CallsTo("empRepo.insert") # {}
    /\ resp.body \in empRepo

\* C15: once create has succeeded for an email, every later create with that
\* email fails with Conflict, as long as no update or remove has since changed
\* or deleted the record that create inserted.
C15_CreatedEmailStaysTaken ==
    [][(pc = "handler" /\ \E c \in hist.created : c.email = request.body.email)
          => (pc' = "done" /\ resp' = ConflictException)]_vars

C15_Witness ==
    /\ pc = "done"
    /\ resp = ConflictException
    /\ \E c \in hist.created : c.email = request.body.email
    /\ hist.removed # {}

IdStored == \E r \in empRepo : r.id = request.params.id

\* the row stored under the id of the call in flight
StoredUnderId(rows) == CHOOSE r \in rows : r.id = request.params.id

LastCall(log) == log[Len(log)]

\* C16: in every state reachable by create, update and remove run one at a
\* time, no two stored Employees have the same email; an update that sets the
\* email to one a different Employee holds does not produce two such records.
C16_EmailsUnique ==
    \A r1 \in empRepo, r2 \in empRepo : r1.email = r2.email => r1 = r2

C16_Witness ==
    /\ pc = "done"
    /\ CallsTo("empRepo.update") # {}
    /\ "email" \in DOMAIN request.body
    /\ \E r \in empRepo : r.id # request.params.id /\ r.email = request.body.email

\* C17: findOne, update and remove with an id the store holds no record for
\* fail with NotFound; update does not call the store's update, remove does not
\* call the store's delete, and the store is unchanged.
C17_MissingIdNotFound ==
    [][(pc \in {"findOne", "update", "remove"} /\ ~IdStored)
          => /\ pc' = "done"
             /\ resp' = NotFoundException
             /\ \A i \in 1..Len(calls') :
                    calls'[i].op \notin {"empRepo.update", "empRepo.delete"}
             /\ empRepo' = empRepo]_vars

C17_Witness ==
    /\ pc = "done"
    /\ resp = NotFoundException
    /\ CallsTo("EmployeesService.update") # {}
    /\ empRepo # {}

\* the record has the payload's value in every field the payload carries and
\* the prior record's value in every other field
MergedFrom(rec, prior, payload) ==
    /\ DOMAIN rec = DOMAIN prior
    /\ \A f \in DOMAIN prior :
          rec[f] = IF f \in DOMAIN payload THEN payload[f] ELSE prior[f]

\* C18: update on an existing id with a partial payload returns a record in
\* which every field of the payload has the payload's value and every other
\* field keeps the value the stored record had before the update.
C18_PartialMerge ==
    [][(pc = "updateWrite")
          => /\ IdStored
             /\ MergedFrom(LastCall(calls').emp, StoredUnderId(empRepo), request.body)
             /\ resp'.status = 200
                   => MergedFrom(resp'.body, StoredUnderId(empRepo), request.body)]_vars

C18_Witness ==
    /\ pc = "done"
    /\ resp.status = 200
    /\ CallsTo("empRepo.update") # {}
    /\ DOMAIN request.body = {"name", "salary"}
    /\ resp.body.name = "Updated Name"
    /\ resp.body.email \in Emails

\* C19: a successful update(id, payload) writes the merged record under
\* exactly the requested id; the record stored under id after the call equals
\* the record the call returns; no record with another id is modified.
C19_StoredEqualsReturned ==
    [][(pc = "updateWrite" /\ resp'.status = 200)
          => /\ LastCall(calls').op = "empRepo.update"
             /\ LastCall(calls').criteria = [id |-> request.params.id]
             /\ \E r \in empRepo' : r.id = request.params.id
             /\ StoredUnderId(empRepo') = resp'.body
             /\ \A r \in empRepo : r.id # request.params.id => r \in empRepo'
             /\ \A r \in empRepo' : r.id # request.params.id => r \in empRepo]_vars

\* C20: remove(id) on an existing id calls the store's delete with exactly
\* that id and returns no value; afterwards findOne(id), update(id, ...) and
\* remove(id) all fail with NotFound, and every other stored Employee is
\* unchanged.
C20_RemovedStaysGone ==
    [][/\ (pc = "removeDelete")
           => /\ LastCall(calls') = [op |-> "empRepo.delete", id |-> request.params.id]
              /\ resp'.status = 200
              /\ "body" \notin DOMAIN resp'
              /\ \A r \in empRepo' : r.id # request.params.id
              /\ \A r \in empRepo : r.id # request.params.id => r \in empRepo'
              /\ empRepo' \subseteq empRepo
       /\ (pc \in {"findOne", "update", "remove"} /\ request.params.id \in hist.removed)
           => (pc' = "done" /\ resp' = NotFoundException /\ empRepo' = empRepo)]_vars

C20_Witness ==
    /\ pc = "done"
    /\ resp = NotFoundException
    /\ "params" \in DOMAIN request
    /\ request.params.id \in hist.removed
    /\ CallsTo("EmployeesService.remove") # {}
    /\ empRepo # {}

-----------------------------------------------------------------------------
(* DepartmentsService, one call at a time *)

NameTaken == \E r \in deptRepo : r.name = request.body.name

DepartmentStored == \E r \in deptRepo : r.id = request.params.id

\* C21: Department create with a name some stored Department has (exact match)
\* fails with Conflict and never calls insert; with a fresh name it calls
\* insert once and returns a record whose name is the input's.
C21_DepartmentCreate ==
    [][/\ (pc = "deptCreate" /\ NameTaken)
           => /\ pc' = "done"
              /\ resp' = ConflictException
              /\ \A i \in 1..Len(calls') : calls'[i].op # "deptRepo.insert"
              /\ deptRepo' = deptRepo
       /\ (pc = "deptCreate" /\ ~NameTaken)
           => (pc' = "deptInsert" /\ \A i \in 1..Len(calls') : calls'[i].op # "deptRepo.insert")
       /\ (pc = "deptInsert")
           => /\ pc' = "done"
              /\ \E i \in 1..Len(calls') :
                    /\ \A j \in 1..Len(calls') : calls'[j].op = "deptRepo.insert" <=> j = i
                    /\ calls'[i].dept = [name |-> request.body.name]
              /\ resp'.status = 201
              /\ resp'.body.name = request.body.name]_vars

\* a name is inserted although the table holds the same name in another case
C21_Witness ==
    /\ pc = "done"
    /\ resp.status = 201
    /\ resp.body.name = "engineering"
    /\ \E r \in deptRepo : r.name = "Engineering"
    /\ CallsTo("deptRepo.insert") # {}

\* C22: Department findOne with an id the store holds no Department for fails
\* with NotFound, and with an existing id returns that Department.
C22_DepartmentFindOne ==
    [][(pc = "deptFindOne")
          => /\ pc' = "done"
             /\ resp' = IF DepartmentStored
                        THEN Returned(CHOOSE r \in deptRepo : r.id = request.params.id)
                        ELSE NotFoundException]_vars

\* C23: Department update and remove never read or write the store: for every
\* id and payload, whether or not the id exists, the stored Departments are the
\* same before and after the call, and the call reports success.
C23_DepartmentStubs ==
    [][(pc \in {"deptUpdate", "deptRemove"})
          => /\ pc' = "done"
             /\ calls' = calls
             /\ deptRepo' = deptRepo
             /\ resp'.status = 200]_vars

C23_Witness ==
    /\ pc = "done"
    /\ CallsTo("DepartmentsService.update") # {}
    /\ "name" \in DOMAIN request.body
    /\ ~DepartmentStored
    /\ deptRepo # {}
    /\ resp.status = 200

-----------------------------------------------------------------------------
(* EmployeesService over a failing store *)

\* C24: when the store fails during a lookup, insert, update or delete issued
\* by Employee create, findOne, update or remove, the operation fails with that
\* same store error: not turned into Conflict or NotFound, not retried, not
\* reported as success.
C24_StoreErrorPropagates ==
    \A i \in 1..Len(calls) :
        "error" \in DOMAIN calls[i]
            => /\ i = Len(calls)
               /\ pc = "done"
               /\ resp = calls[i].error

C24_Witness ==
    /\ pc = "done"
    /\ calls # <<>>
    /\ LastCall(calls).op = "empRepo.delete"
    /\ "error" \in DOMAIN LastCall(calls)
    /\ resp.error = "QueryFailedError"
    /\ IdStored

-----------------------------------------------------------------------------
(* calculateAnnualSalary *)

\* C25: calculateAnnualSalary(m) returns exactly 12 * m for every monthly
\* salary m >= 0, zero included, and fails with the error 'Invalid salary' for
\* every m < 0.
C25_AnnualSalary ==
    \A i \in CallsTo("calculateAnnualSalary") :
        LET m == calls[i].monthlySalary
        IN  IF m >= 0
            THEN resp.status = 200 /\ resp.body = 12 * m
            ELSE resp.error = "Error" /\ resp.message = "Invalid salary"

C25_Witness ==
    /\ CallsTo("calculateAnnualSalary") # {}
    /\ request.body = 0
    /\ resp = Returned(0)

-----------------------------------------------------------------------------
(* The principal of a request *)

\* C26: in every reachable state a principal is attached to a request only if
\* the verifier accepted the token of that same request; on every failing path
\* of OktaAuthGuard.canActivate (missing header, malformed header, rejection by
\* the verifier) the request carries no principal afterwards.
C26_PrincipalOnlyAfterAcceptance ==
    /\ ("user" \in DOMAIN request)
          => \E i \in CallsTo("verifyAccessToken") :
                /\ calls[i].result.ok
                /\ calls[i].token = ExtractToken(request.headers.authorization)
                /\ calls[i].token \in IssuedTokens
                /\ request.user.sub = IssuedClaims(calls[i].token[1]).sub
    /\ (AuthnRan /\ resp.status = 401) => "user" \notin DOMAIN request
    /\ (\E i \in CallsTo("verifyAccessToken") : ~calls[i].result.ok)
          => "user" \notin DOMAIN request

C26_Witness ==
    /\ pc = "done"
    /\ resp.status = 401
    /\ \E i \in CallsTo("verifyAccessToken") :
           calls[i].token \in IssuedTokens /\ ~calls[i].result.ok
    /\ "user" \notin DOMAIN request

-----------------------------------------------------------------------------
(* The id of an Employee *)

\* C28: the id of a stored Employee never changes: for every sequence of
\* operations and every update payload, one carrying an id other than the path
\* id included, the record update(id, payload) stores and returns has the id it
\* had before the call.
C28_IdImmutable ==
    [][(pc = "updateWrite" /\ resp'.status = 200)
          => /\ resp'.body.id = request.params.id
             /\ \E r \in empRepo' : r.id = request.params.id
             /\ {r.id : r \in empRepo'} = {r.id : r \in empRepo}]_vars

-----------------------------------------------------------------------------
(* EmployeesService, two calls in flight *)

\* the call of p is a create that has called insert
Inserted(p) == \E i \in 1..Len(procs[p].calls) : procs[p].calls[i].op = "empRepo.insert"

\* the call of p is an update that returned a record
UpdateReturned(p) ==
    /\ procs[p].pc = "done"
    /\ procs[p].resp.status = 200
    /\ procs[p].calls[1].op = "EmployeesService.update"

\* C27: with two creates for the same fresh email in flight, both can pass the
\* duplicate lookup before either inserts, and then both call the store's insert
\* for that email: the lookup and the write are not atomic.
C27_CreateRace ==
    [][\A p \in Procs, q \in Procs :
          (/\ p # q
           /\ procs[p].pc = "insert"
           /\ procs[q].pc \in {"insert", "done"}
           /\ procs[q].request.body = procs[p].request.body
           /\ procs'[p] # procs[p])
              => /\ LastCall(procs'[p].calls).op = "empRepo.insert"
                 /\ LastCall(procs'[p].calls).emp.email = procs[p].request.body.email]_vars

\* both calls found no row with the email and both have called insert with it
C27_Witness ==
    /\ procs["p"].pc = "done"
    /\ procs["q"].pc = "done"
    /\ Inserted("p")
    /\ Inserted("q")
    /\ procs["p"].request.body.email = procs["q"].request.body.email
    /\ \A p \in Procs : procs[p].calls[2].found = {}
    /\ procs["p"].resp.status = 201
    /\ procs["q"].resp.error = "QueryFailedError"

\* C29: when two updates of the same id with payloads on different fields run
\* concurrently, both changes are in the stored record once both have
\* completed, in every interleaving.
C29_ConcurrentUpdatesMerge ==
    \A p \in Procs, q \in Procs :
        (/\ p # q
         /\ UpdateReturned(p)
         /\ UpdateReturned(q)
         /\ procs[p].request.params.id = procs[q].request.params.id
         /\ DOMAIN procs[p].request.body \cap DOMAIN procs[q].request.body = {})
            => \E r \in empRepo :
                  /\ r.id = procs[p].request.params.id
                  /\ \A f \in DOMAIN procs[p].request.body : r[f] = procs[p].request.body[f]
                  /\ \A f \in DOMAIN procs[q].request.body : r[f] = procs[q].request.body[f]

\* C30: under concurrent requests, whenever update(id, ...) returns a record
\* the store holds a record with that id at that moment, and whenever
\* remove(id) returns it is that call's delete that removed the record.
C30_SuccessMeansRecord ==
    [][\A p \in Procs :
          LET id == procs[p].request.params.id
          IN  /\ (procs[p].pc = "updateWrite" /\ procs'[p].resp.status = 200)
                    => \E r \in empRepo' : r.id = id
              /\ (procs[p].pc = "removeDelete" /\ procs'[p].resp.status = 200)
                    => /\ \E r \in empRepo : r.id = id
                       /\ \A r \in empRepo' : r.id # id]_vars

=============================================================================
